---- MODULE Spec2Model ----
(***************************************************************************)
(* Smart Expense Tracker (src/tracker.py): the SQLite tables, the          *)
(* Streamlit session and pages, the categorizer and the CSV import/export, *)
(* as a state machine.                                                     *)
(*                                                                         *)
(* Text is a sequence of one-character strings, so that lower-casing,      *)
(* substring search, number and date formatting and parsing, and SQLite's  *)
(* byte-wise text comparison are computed and not assumed.  Amounts are    *)
(* counted in hundredths (the Add form's number_input has format "%.2f").  *)
(***************************************************************************)
EXTENDS Integers, Sequences, FiniteSets, TLC

\* SQL NULL / Python None, one per kind of value: an id, a text, a date.
NoneId == 0

NoneText == <<"None">>

NoneDate == <<0, 0, 0>>

(***************************************************************************)
(* Text                                                                    *)
(***************************************************************************)
\* The characters the model's texts use, in ASCII order.
Alphabet ==
    <<" ", "-", ".", "/",
      "0","1","2","3","4","5","6","7","8","9",
      "A","B","C","D","E","F","G","H","I","J","K","L","M",
      "N","O","P","Q","R","S","T","U","V","W","X","Y","Z",
      "a","b","c","d","e","f","g","h","i","j","k","l","m",
      "n","o","p","q","r","s","t","u","v","w","x","y","z">>

\* The position of each character in Alphabet.
OrdOf == [c \in {Alphabet[i] : i \in DOMAIN Alphabet} |->
            CHOOSE i \in DOMAIN Alphabet : Alphabet[i] = c]

Ord(c) == OrdOf[c]

IsDigit(c) == c \in {"0","1","2","3","4","5","6","7","8","9"}

IsUpper(c) == Ord(c) >= Ord("A") /\ Ord(c) <= Ord("Z")

\* str.lower(), one character.
LowerOf == [c \in {Alphabet[i] : i \in DOMAIN Alphabet} |->
              IF IsUpper(c) THEN Alphabet[Ord(c) + (Ord("a") - Ord("A"))] ELSE c]

LowerChar(c) == LowerOf[c]

\* str.lower()
Lower(s) == [i \in DOMAIN s |-> LowerChar(s[i])]

\* Python's `kw in desc`: kw occurs in desc as a contiguous substring.
Contains(desc, kw) ==
    \E i \in 0..(Len(desc) - Len(kw)) :
        \A j \in 1..Len(kw) : desc[i + j] = kw[j]

\* Byte-wise text order (SQLite's BINARY collation): s <= t.
RECURSIVE TextLeq(_, _)
TextLeq(s, t) ==
    IF s = <<>> THEN TRUE
    ELSE IF t = <<>> THEN FALSE
    ELSE IF Ord(Head(s)) < Ord(Head(t)) THEN TRUE
    ELSE IF Ord(Head(s)) > Ord(Head(t)) THEN FALSE
    ELSE TextLeq(Tail(s), Tail(t))

\* str.strip() of the blanks at both ends.
RECURSIVE Strip(_)
Strip(s) ==
    IF s = <<>> THEN s
    ELSE IF Head(s) = " " THEN Strip(Tail(s))
    ELSE IF s[Len(s)] = " " THEN Strip(SubSeq(s, 1, Len(s) - 1))
    ELSE s

(***************************************************************************)
(* Categorization logic                                                    *)
(***************************************************************************)
Food == <<"F","o","o","d">>
Transport == <<"T","r","a","n","s","p","o","r","t">>
Groceries == <<"G","r","o","c","e","r","i","e","s">>
Entertainment == <<"E","n","t","e","r","t","a","i","n","m","e","n","t">>
Bills == <<"B","i","l","l","s">>
Shopping == <<"S","h","o","p","p","i","n","g">>
Health == <<"H","e","a","l","t","h">>
Education == <<"E","d","u","c","a","t","i","o","n">>
Rent == <<"R","e","n","t">>
Misc == <<"M","i","s","c">>

DEFAULT_CATEGORIES ==
    <<Food, Transport, Groceries, Entertainment, Bills, Shopping, Health, Education, Rent, Misc>>

\* The keyword table, in the dict's insertion order (the order of iteration).
KEYWORD_CATEGORY_MAP ==
    <<<<<<"u","b","e","r">>, Transport>>,
      <<<<"t","a","x","i">>, Transport>>,
      <<<<"b","u","s">>, Transport>>,
      <<<<"f","u","e","l">>, Transport>>,
      <<<<"c","o","f","f","e","e">>, Food>>,
      <<<<"r","e","s","t","a","u","r","a","n","t">>, Food>>,
      <<<<"d","i","n","n","e","r">>, Food>>,
      <<<<"l","u","n","c","h">>, Food>>,
      <<<<"b","r","e","a","k","f","a","s","t">>, Food>>,
      <<<<"g","r","o","c","e","r","y">>, Groceries>>,
      <<<<"s","u","p","e","r","m","a","r","k","e","t">>, Groceries>>,
      <<<<"w","a","l","m","a","r","t">>, Groceries>>,
      <<<<"n","e","t","f","l","i","x">>, Entertainment>>,
      <<<<"m","o","v","i","e">>, Entertainment>>,
      <<<<"s","p","o","t","i","f","y">>, Entertainment>>,
      <<<<"e","l","e","c","t","r","i","c","i","t","y">>, Bills>>,
      <<<<"w","a","t","e","r">>, Bills>>,
      <<<<"i","n","t","e","r","n","e","t">>, Bills>>,
      <<<<"b","i","l","l">>, Bills>>,
      <<<<"s","h","i","r","t">>, Shopping>>,
      <<<<"a","m","a","z","o","n">>, Shopping>>,
      <<<<"f","l","i","p","k","a","r","t">>, Shopping>>,
      <<<<"b","u","y">>, Shopping>>,
      <<<<"d","o","c","t","o","r">>, Health>>,
      <<<<"h","o","s","p","i","t","a","l">>, Health>>,
      <<<<"m","e","d","i","c","i","n","e">>, Health>>,
      <<<<"t","u","i","t","i","o","n">>, Education>>,
      <<<<"c","o","u","r","s","e">>, Education>>,
      <<<<"b","o","o","k","s">>, Education>>,
      <<<<"r","e","n","t">>, Rent>>>>

\* A faulty variant of auto_categorize: the last matching keyword wins.
RECURSIVE LastMatch(_, _)
LastMatch(desc, i) ==
    IF i = 0 THEN Misc
    ELSE IF Contains(desc, KEYWORD_CATEGORY_MAP[i][1]) THEN KEYWORD_CATEGORY_MAP[i][2]
    ELSE LastMatch(desc, i - 1)

auto_categorize_last(description) ==
    LastMatch(Lower(IF description = NoneText THEN <<>> ELSE description),
              Len(KEYWORD_CATEGORY_MAP))

\* The loop of auto_categorize from table entry i on: the first keyword
\* contained in desc decides, "Misc" when the table is exhausted.
RECURSIVE FirstMatch(_, _)
FirstMatch(desc, i) ==
    IF i > Len(KEYWORD_CATEGORY_MAP) THEN Misc
    ELSE IF Contains(desc, KEYWORD_CATEGORY_MAP[i][1]) THEN KEYWORD_CATEGORY_MAP[i][2]
    ELSE FirstMatch(desc, i + 1)

auto_categorize(description) ==
    FirstMatch(Lower(IF description = NoneText THEN <<>> ELSE description), 1)

(***************************************************************************)
(* Password digests                                                        *)
(***************************************************************************)
\* The number of digests of the model.  SHA-256 is kept as what the code
\* relies on, a deterministic function of the password's characters into a
\* fixed finite range; the range is small, so two passwords can collide.
DigestSpace == 5

RECURSIVE Digest(_, _)
Digest(s, h) ==
    IF s = <<>> THEN h
    ELSE Digest(Tail(s), (h * 3 + Ord(Head(s))) % DigestSpace)

hash_password(password) == Digest(password, 1)

verify_password(password, hashed) == hash_password(password) = hashed

(***************************************************************************)
(* Numbers and dates as text                                               *)
(***************************************************************************)
DigitChar(n) == Alphabet[Ord("0") + n]

DigitVal(c) == Ord(c) - Ord("0")

\* The decimal digits of n >= 0, without padding.
RECURSIVE Digits(_)
Digits(n) == IF n < 10 THEN <<DigitChar(n)>> ELSE Digits(n \div 10) \o <<DigitChar(n % 10)>>

\* n in decimal, zero-padded on the left to at least w characters.
RECURSIVE Pad(_, _)
Pad(s, w) == IF Len(s) >= w THEN s ELSE Pad(<<"0">> \o s, w)

AllDigits(s) == s # <<>> /\ \A i \in DOMAIN s : IsDigit(s[i])

\* The value of a non-empty digit string.
RECURSIVE NatOf(_)
NatOf(s) == IF s = <<>> THEN 0 ELSE NatOf(SubSeq(s, 1, Len(s) - 1)) * 10 + DigitVal(s[Len(s)])

\* A calendar date is <<year, month, day>>.
IsLeap(y) == (y % 4 = 0 /\ y % 100 # 0) \/ y % 400 = 0

DaysIn(y, m) ==
    IF m = 2 THEN (IF IsLeap(y) THEN 29 ELSE 28)
    ELSE IF m \in {4, 6, 9, 11} THEN 30 ELSE 31

ValidDate(d) ==
    /\ d[1] >= 1 /\ d[1] <= 9999
    /\ d[2] >= 1 /\ d[2] <= 12
    /\ d[3] >= 1 /\ d[3] <= DaysIn(d[1], d[2])

\* d1 <= d2 on calendar dates.
DateLeq(d1, d2) ==
    \/ d1[1] < d2[1]
    \/ d1[1] = d2[1] /\ d1[2] < d2[2]
    \/ d1[1] = d2[1] /\ d1[2] = d2[2] /\ d1[3] <= d2[3]

\* A faulty variant of strftime: month and day are not zero-padded.
strftime_nopad(d) == Pad(Digits(d[1]), 4) \o <<"-">> \o Digits(d[2]) \o <<"-">> \o Digits(d[3])

\* date.strftime("%Y-%m-%d")
strftime(d) ==
    Pad(Digits(d[1]), 4) \o <<"-">> \o Pad(Digits(d[2]), 2) \o <<"-">> \o Pad(Digits(d[3]), 2)

\* The pieces of s between the characters of seps.
RECURSIVE Split(_, _, _)
Split(s, seps, cur) ==
    IF s = <<>> THEN <<cur>>
    ELSE IF Head(s) \in seps THEN <<cur>> \o Split(Tail(s), seps, <<>>)
    ELSE Split(Tail(s), seps, Append(cur, Head(s)))

\* A year-first numeric date text with separator sep, as a date; NoneDate when
\* the text is not one or names no calendar day.
DateOfText(s, seps) ==
    LET tok == Split(s, seps, <<>>) IN
    IF Len(tok) = 3 /\ AllDigits(tok[1]) /\ Len(tok[1]) = 4
       /\ AllDigits(tok[2]) /\ Len(tok[2]) <= 2 /\ AllDigits(tok[3]) /\ Len(tok[3]) <= 2
       /\ ValidDate(<<NatOf(tok[1]), NatOf(tok[2]), NatOf(tok[3])>>)
    THEN <<NatOf(tok[1]), NatOf(tok[2]), NatOf(tok[3])>>
    ELSE NoneDate

\* SQLite's date(dt) on a stored text: the text itself when it is a
\* YYYY-MM-DD date, NULL otherwise.
sql_date(dt) ==
    IF dt # NoneText /\ Len(dt) = 10 /\ DateOfText(dt, {"-"}) # NoneDate THEN dt ELSE NoneText

\* SQL `x BETWEEN lo AND hi` on texts; NULL operands make it not true.
sql_between(x, lo, hi) ==
    x # NoneText /\ lo # NoneText /\ hi # NoneText /\ TextLeq(lo, x) /\ TextLeq(x, hi)

\* SQL `a = b`: never true of NULL.
sql_eq(a, b) == a # NoneId /\ b # NoneId /\ a = b

\* pd.to_datetime on the stored dt column (every stored dt is YYYY-MM-DD).
to_datetime(dt) == DateOfText(dt, {"-"})

\* dateutil's parser.parse(...).date() on a text, for the year-first numeric
\* forms YYYY-MM-DD and YYYY/MM/DD (month and day of one or two digits);
\* NoneDate stands for the ParserError every other text of the model raises.
parser_parse(s) == DateOfText(s, {"-", "/"})

\* repr of a float counted in hundredths: 1250 is "12.5", 2000 is "20.0".
FormatFloat(a) ==
    Digits(a \div 100) \o <<".">> \o
        (IF a % 10 = 0 THEN <<DigitChar((a % 100) \div 10)>>
         ELSE <<DigitChar((a % 100) \div 10), DigitChar(a % 10)>>)

\* float(text) as [ok, v], v in hundredths, for texts of the form
\* [-]digits[.d[d]]; ok is FALSE for the ValueError every other text of the
\* model raises.
ParseFloat(s) ==
    LET neg  == s # <<>> /\ Head(s) = "-"
        body == IF neg THEN Tail(s) ELSE s
        tok  == Split(body, {"."}, <<>>)
        sign == IF neg THEN -1 ELSE 1
    IN  IF Len(tok) = 1 /\ AllDigits(tok[1])
        THEN [ok |-> TRUE, v |-> sign * NatOf(tok[1]) * 100]
        ELSE IF Len(tok) = 2 /\ AllDigits(tok[1]) /\ tok[2] = <<>>
        THEN [ok |-> TRUE, v |-> sign * NatOf(tok[1]) * 100]
        ELSE IF Len(tok) = 2 /\ AllDigits(tok[1]) /\ AllDigits(tok[2]) /\ Len(tok[2]) <= 2
        THEN [ok |-> TRUE,
              v  |-> sign * (NatOf(tok[1]) * 100
                             + NatOf(IF Len(tok[2]) = 1 THEN tok[2] \o <<"0">> ELSE tok[2]))]
        ELSE [ok |-> FALSE, v |-> 0]

(***************************************************************************)
(* State                                                                   *)
(***************************************************************************)
VARIABLES
    users,          \* table users: rows [id, username, password_hash], in insertion order
    expenses,       \* table expenses: rows [id, dt, amount, description, category, user_id]
    expense_seq,    \* AUTOINCREMENT counter of expenses (the last id handed out)
    session_state,  \* per browser session: [logged_in, username, user_id]
    confirm_box,    \* per session: the "Confirm deletion" checkbox's widget state: "absent" while it is not on the page, else "unchecked" or "checked"
    out             \* what the last script run did and displayed

vars == <<users, expenses, expense_seq, session_state, confirm_box, out>>

\* The largest expense id a run of the model hands out.
MaxExpenseId == 2

Sessions == {"s1"}

Usernames == {<<"a">>, <<"b">>}

Passwords == {<<"p">>, <<"q">>, <<"u">>}

\* 2024-01-09 and 2024-01-10.
Dates == {<<2024, 1, 9>>, <<2024, 1, 10>>}

\* Amounts the Add form is given, in hundredths: 0.00 and 12.50.
Amounts == {0, 1250}

UberRide == <<"U","b","e","r"," ","r","i","d","e">>

Descriptions == {UberRide}

Searches == {<<>>, <<"u","b","e","r">>}

(***************************************************************************)
(* Database helpers and data operations                                    *)
(***************************************************************************)
Range(f) == {f[i] : i \in DOMAIN f}

get_user_id(username) ==
    IF \E i \in DOMAIN users : users[i].username = username
    THEN users[CHOOSE i \in DOMAIN users : users[i].username = username].id
    ELSE NoneId

\* add_expense on the table db = [rows, seq]: one INSERT, the id from AUTOINCREMENT.
add_expense(db, dt, amount, description, category, user_id) ==
    [rows |-> Append(db.rows, [id |-> db.seq + 1, dt |-> dt, amount |-> amount,
                               description |-> description, category |-> category,
                               user_id |-> user_id]),
     seq  |-> db.seq + 1]

\* Insert row r into the date-descending sequence s, after the rows of its date.
RECURSIVE InsertDesc(_, _)
InsertDesc(s, r) ==
    IF s = <<>> THEN <<r>>
    ELSE IF DateLeq(r.dt, Head(s).dt) THEN <<Head(s)>> \o InsertDesc(Tail(s), r)
    ELSE <<r>> \o s

\* df.sort_values('dt', ascending=False); the order among equal dates is
\* the sort's own and nothing below relies on it.
RECURSIVE sort_values_desc(_)
sort_values_desc(s) ==
    IF s = <<>> THEN <<>> ELSE InsertDesc(sort_values_desc(SubSeq(s, 1, Len(s) - 1)), s[Len(s)])

\* The SELECT of fetch_expenses and the frame it is read into.
SelectExpenses(rows, start_date, end_date, user_id) ==
    LET ranged == start_date # NoneText /\ start_date # <<>> /\ end_date # NoneText /\ end_date # <<>>
        hit(e) == /\ sql_eq(e.user_id, user_id)
                  /\ ranged => sql_between(sql_date(e.dt), start_date, end_date)
        sel    == SelectSeq(rows, hit)
    IN  [i \in DOMAIN sel |->
            [id |-> sel[i].id, dt |-> to_datetime(sel[i].dt), amount |-> sel[i].amount,
             description |-> sel[i].description, category |-> sel[i].category]]

\* A faulty variant of fetch_expenses: the SELECT has no user_id condition.
fetch_expenses_anyuser(rows, start_date, end_date, user_id) ==
    LET ranged == start_date # NoneText /\ start_date # <<>> /\ end_date # NoneText /\ end_date # <<>>
        hit(e) == ranged => sql_between(sql_date(e.dt), start_date, end_date)
        sel    == SelectSeq(rows, hit)
    IN  sort_values_desc([i \in DOMAIN sel |->
            [id |-> sel[i].id, dt |-> to_datetime(sel[i].dt), amount |-> sel[i].amount,
             description |-> sel[i].description, category |-> sel[i].category]])

fetch_expenses(rows, start_date, end_date, user_id) ==
    sort_values_desc(SelectExpenses(rows, start_date, end_date, user_id))

\* DELETE FROM expenses WHERE user_id=:uid
delete_all(rows, user_id) ==
    SelectSeq(rows, LAMBDA e : ~sql_eq(e.user_id, user_id))

\* DELETE FROM expenses WHERE user_id=:uid AND date(dt) BETWEEN :start AND :end
delete_range(rows, user_id, start, end) ==
    SelectSeq(rows, LAMBDA e :
        ~(sql_eq(e.user_id, user_id) /\ sql_between(sql_date(e.dt), start, end)))

\* df['amount'].sum()
RECURSIVE SumAmount(_)
SumAmount(df) == IF df = <<>> THEN 0 ELSE Head(df).amount + SumAmount(Tail(df))

\* The rows of export_csv's output: header and one row of cells per record.
ExportHeader == << <<"i","d">>, <<"d","t">>, <<"a","m","o","u","n","t">>,
                   <<"d","e","s","c","r","i","p","t","i","o","n">>,
                   <<"c","a","t","e","g","o","r","y">> >>

\* A file of no bytes.
EmptyFile == [header |-> <<>>, rows |-> <<>>]

\* df.to_csv(index=False): a missing (None) text is written as the empty cell.
export_csv(df) ==
    [header |-> ExportHeader,
     rows   |-> [i \in DOMAIN df |->
                    << Digits(df[i].id), strftime(df[i].dt), FormatFloat(df[i].amount),
                       IF df[i].description = NoneText THEN <<>> ELSE df[i].description,
                       IF df[i].category = NoneText THEN <<>> ELSE df[i].category >>]]

(***************************************************************************)
(* Authentication helpers                                                  *)
(***************************************************************************)
UsernameTaken(username) == \E i \in DOMAIN users : users[i].username = username

\* A faulty variant of register_user: an existing username's digest is replaced.
register_user_overwrite(tbl, username, password) ==
    IF \E i \in DOMAIN tbl : tbl[i].username = username
    THEN [i \in DOMAIN tbl |->
            IF tbl[i].username = username
            THEN [tbl[i] EXCEPT !.password_hash = hash_password(password)] ELSE tbl[i]]
    ELSE Append(tbl, [id |-> Len(tbl) + 1, username |-> username,
                      password_hash |-> hash_password(password)])

\* register_user on the table tbl: the table after the INSERT; the UNIQUE
\* constraint's IntegrityError leaves it as it was.
register_user(tbl, username, password) ==
    IF \E i \in DOMAIN tbl : tbl[i].username = username
    THEN tbl
    ELSE Append(tbl, [id |-> Len(tbl) + 1, username |-> username,
                      password_hash |-> hash_password(password)])

authenticate_user(username, password) ==
    \E i \in DOMAIN users :
        users[i].username = username /\ verify_password(password, users[i].password_hash)

(***************************************************************************)
(* Streamlit app                                                           *)
(***************************************************************************)
LoggedOut == [logged_in |-> FALSE, username |-> NoneText, user_id |-> NoneId]

Init ==
    /\ users = <<>>
    /\ expenses = <<>>
    /\ expense_seq = 0
    /\ session_state = [s \in Sessions |-> LoggedOut]
    /\ confirm_box = [s \in Sessions |-> "absent"]
    /\ out = [op |-> "start"]

\* A faulty variant of LoginGate: the script runs on without a login.
LoginGateOpen(s) == TRUE

\* The login gate: the script reaches the pages only when logged_in is set;
\* otherwise it shows the login or register form and st.stop()s.
LoginGate(s) == session_state[s].logged_in

\* A script run that does not reach the Admin page's checkbox drops its widget state.
DropConfirm(s) == confirm_box' = [confirm_box EXCEPT ![s] = "absent"]

\* What a page's script run leaves in out: the page, the user id its
\* repository calls were given, whether the session was logged in, and the
\* message displayed.
PageOut(s, op, ok, msg) ==
    [op |-> op, s |-> s, uid |-> session_state[s].user_id,
     logged_in |-> session_state[s].logged_in, ok |-> ok, msg |-> msg]

logout(s) == [session_state EXCEPT ![s] = LoggedOut]

\* The sidebar's Logout button.
Logout(s) ==
    /\ LoginGate(s)
    /\ session_state' = logout(s)
    /\ DropConfirm(s)
    /\ out' = [op |-> "logout", s |-> s]
    /\ UNCHANGED <<users, expenses, expense_seq>>

\* The login form, submitted.
LoginForm(s, username, password) ==
    /\ ~LoginGate(s)
    /\ IF authenticate_user(username, password)
       THEN /\ session_state' = [session_state EXCEPT ![s] =
                    [logged_in |-> TRUE, username |-> username, user_id |-> get_user_id(username)]]
            /\ out' = [op |-> "login", s |-> s, username |-> username, password |-> password,
                       ok |-> TRUE, msg |-> "Logged in successfully!"]
       ELSE /\ session_state' = session_state
            /\ out' = [op |-> "login", s |-> s, username |-> username, password |-> password,
                       ok |-> FALSE, msg |-> "Invalid username or password."]
    /\ DropConfirm(s)
    /\ UNCHANGED <<users, expenses, expense_seq>>

\* The register form, submitted.
RegisterForm(s, username, password, confirm) ==
    /\ ~LoginGate(s)
    /\ IF username = <<>> \/ password = <<>>
       THEN /\ users' = users
            /\ out' = [op |-> "register", s |-> s, username |-> username, password |-> password,
                       called |-> FALSE, ok |-> FALSE, msg |-> "Username and password required."]
       ELSE IF password # confirm
       THEN /\ users' = users
            /\ out' = [op |-> "register", s |-> s, username |-> username, password |-> password,
                       called |-> FALSE, ok |-> FALSE, msg |-> "Passwords do not match."]
       ELSE /\ users' = register_user(users, username, password)
            /\ out' = [op |-> "register", s |-> s, username |-> username, password |-> password,
                       called |-> TRUE, ok |-> ~UsernameTaken(username),
                       msg |-> IF ~UsernameTaken(username)
                               THEN "Registration successful! Please login."
                               ELSE "Username already exists."]
    /\ DropConfirm(s)
    /\ UNCHANGED <<expenses, expense_seq, session_state>>

\* The Home page's two metrics for today: the total and this month's total.
HomeMetrics(rows, uid, today) ==
    LET df_all   == fetch_expenses(rows, NoneText, NoneText, uid)
        df_month == fetch_expenses(rows, strftime(<<today[1], today[2], 1>>), strftime(today), uid)
    IN  [total       |-> IF df_all # <<>> THEN SumAmount(df_all) ELSE 0,
         month_total |-> IF df_month # <<>> THEN SumAmount(df_month) ELSE 0]

\* The Home page, shown: it displays HomeMetrics of the session's user_id.
HomePage(s) ==
    /\ LoginGate(s)
    /\ out' = PageOut(s, "home", TRUE, "Total Expenses")
    /\ DropConfirm(s)
    /\ UNCHANGED <<users, expenses, expense_seq, session_state>>

\* A faulty variant of AddExpenseRejects: only a negative amount is refused.
AddExpenseRejectsNegative(amount_input) == amount_input < 0

\* The Add Expense form's validation.
AddExpenseRejects(amount_input) == amount_input <= 0

\* The Add Expense form, submitted.
AddExpensePage(s, dt_input, amount_input, description_input, category_input) ==
    /\ LoginGate(s)
    /\ LET uid    == session_state[s].user_id
           dt_str == strftime(dt_input)
           db     == add_expense([rows |-> expenses, seq |-> expense_seq], dt_str, amount_input,
                                 Strip(description_input), category_input, uid)
       IN  IF AddExpenseRejects(amount_input)
           THEN /\ UNCHANGED <<expenses, expense_seq>>
                /\ out' = PageOut(s, "add", FALSE, "Amount should be greater than 0.")
                              @@ [amount |-> amount_input]
           ELSE /\ expense_seq < MaxExpenseId
                /\ expenses' = db.rows
                /\ expense_seq' = db.seq
                /\ out' = PageOut(s, "add", TRUE, "Expense added") @@ [amount |-> amount_input]
    /\ DropConfirm(s)
    /\ UNCHANGED <<users, session_state>>

\* str.contains(text_search, case=False, na=False) on description or category.
SearchMask(df, text_search) ==
    SelectSeq(df, LAMBDA r :
        \/ r.description # NoneText /\ Contains(Lower(r.description), Lower(text_search))
        \/ r.category # NoneText /\ Contains(Lower(r.category), Lower(text_search)))

\* The View & Export page's listing df_view.
ViewFrame(rows, uid, start_date, end_date, text_search) ==
    LET fetched == fetch_expenses(rows, strftime(start_date), strftime(end_date), uid)
    IN  IF fetched # <<>> /\ Strip(text_search) # <<>>
        THEN SearchMask(fetched, text_search) ELSE fetched

\* The View & Export page, shown for a date range and a search text; a
\* non-empty listing comes with its CSV download.
ViewPage(s, start_date, end_date, text_search) ==
    /\ LoginGate(s)
    /\ LET df_view == ViewFrame(expenses, session_state[s].user_id,
                                start_date, end_date, text_search)
       IN  IF ~DateLeq(start_date, end_date)
           THEN out' = PageOut(s, "view", FALSE, "Start date cannot be after end date.")
           ELSE out' = PageOut(s, "view", TRUE, "") @@ [has_download |-> df_view # <<>>]
    /\ DropConfirm(s)
    /\ UNCHANGED <<users, expenses, expense_seq, session_state>>

\* groupby(key)['amount'].sum() as the set of <<key, sum>>.
GroupSum(df, key(_)) ==
    { <<k, SumAmount(SelectSeq(df, LAMBDA r : key(r) = k))>> : k \in {key(df[i]) : i \in DOMAIN df} }

\* The Visualizations page's two summaries for today: this month's sums
\* per category and per day.
VizSummaries(rows, uid, today) ==
    LET viz_df == fetch_expenses(rows, strftime(<<today[1], today[2], 1>>), strftime(today), uid)
        cat(r) == r.category
        day(r) == r.dt
    IN  [cat_summary |-> GroupSum(viz_df, cat), daily_summary |-> GroupSum(viz_df, day)]

\* The Visualizations page, shown: it displays VizSummaries of the session's user_id.
VisualizationsPage(s) ==
    /\ LoginGate(s)
    /\ out' = PageOut(s, "viz", TRUE, "")
    /\ DropConfirm(s)
    /\ UNCHANGED <<users, expenses, expense_seq, session_state>>

\* Admin: the "Clear ALL Expenses" button, clicked.  st.button is True in
\* this run only; the checkbox inside its block is drawn with its widget
\* state, which is unchecked when the checkbox was not on the page before.
ClickClearAll(s) ==
    /\ LoginGate(s)
    /\ LET uid     == session_state[s].user_id
           confirm == confirm_box[s] = "checked"
       IN  /\ confirm_box' = [confirm_box EXCEPT ![s] = IF confirm THEN "checked" ELSE "unchecked"]
           /\ IF confirm
              THEN /\ expenses' = delete_all(expenses, uid)
                   /\ out' = PageOut(s, "clear_all", TRUE, "All your expense records cleared.")
              ELSE /\ expenses' = expenses
                   /\ out' = PageOut(s, "clear_all", FALSE, "Check the box to confirm deletion.")
    /\ UNCHANGED <<users, expense_seq, session_state>>

\* Admin: the "Confirm deletion" checkbox, ticked.  The tick reruns the
\* script; in that run st.button is False, so its block (the checkbox and
\* the DELETE) is not executed and the checkbox's widget state is dropped.
TickConfirm(s) ==
    /\ LoginGate(s)
    /\ confirm_box[s] # "absent"
    /\ DropConfirm(s)
    /\ out' = PageOut(s, "confirm_tick", FALSE, "")
    /\ UNCHANGED <<users, expenses, expense_seq, session_state>>

\* Admin: the "Delete Selected Range" button, clicked.
ClickDeleteRange(s, start_del, end_del) ==
    /\ LoginGate(s)
    /\ LET uid == session_state[s].user_id
       IN  IF ~DateLeq(start_del, end_del)
           THEN /\ expenses' = expenses
                /\ out' = PageOut(s, "delete_range", FALSE, "Start date cannot be after end date.")
                              @@ [start |-> start_del, end |-> end_del]
           ELSE /\ expenses' = delete_range(expenses, uid, strftime(start_del), strftime(end_del))
                /\ out' = PageOut(s, "delete_range", TRUE, "Your expenses deleted.")
                              @@ [start |-> start_del, end |-> end_del]
    /\ DropConfirm(s)
    /\ UNCHANGED <<users, expense_seq, session_state>>

(***************************************************************************)
(* Bulk CSV import                                                         *)
(*                                                                         *)
(* A CSV file is its header (the column names) and its rows of cell texts; *)
(* the quoting and splitting of the file's bytes is pandas' own and is not *)
(* modelled.  pd.read_csv turns each column's cells into values.           *)
(***************************************************************************)
\* The cell texts read_csv reads as missing (its default na_values, those
\* the Alphabet can spell).
NaValues ==
    { <<>>, <<"N","/","A">>, <<"N","A">>, <<"N","U","L","L">>, <<"N","a","N">>,
      <<"N","o","n","e">>, <<"n","/","a">>, <<"n","a","n">>, <<"n","u","l","l">> }

\* A value of the frame: NaN, an int n, a float of n hundredths, or a text s.
NaN == [t |-> "nan", n |-> 0, s |-> <<>>]

IntVal(n) == [t |-> "int", n |-> n, s |-> <<>>]

FloatVal(n) == [t |-> "float", n |-> n, s |-> <<>>]

StrVal(s) == [t |-> "str", n |-> 0, s |-> s]

IsIntText(s) == AllDigits(s) \/ (Len(s) > 1 /\ Head(s) = "-" /\ AllDigits(Tail(s)))

\* read_csv's type inference on one column's cells: all integers and none
\* missing gives ints; all numbers (or missing) gives floats, the missing
\* ones NaN; any other cell keeps the column as texts, the missing ones NaN.
ColumnValues(cells) ==
    LET present == {i \in DOMAIN cells : cells[i] \notin NaValues}
    IN  IF present = DOMAIN cells /\ \A i \in present : IsIntText(cells[i])
        THEN [i \in DOMAIN cells |-> IntVal(ParseFloat(cells[i]).v \div 100)]
        ELSE IF \A i \in present : ParseFloat(cells[i]).ok
        THEN [i \in DOMAIN cells |->
                IF i \in present THEN FloatVal(ParseFloat(cells[i]).v) ELSE NaN]
        ELSE [i \in DOMAIN cells |->
                IF i \in present THEN StrVal(cells[i]) ELSE NaN]

\* pd.read_csv: the frame [columns, data], data[c][i] the value of column c in row i.
read_csv(file) ==
    [columns |-> file.header,
     nrows   |-> Len(file.rows),
     data    |-> [c \in DOMAIN file.header |->
                    ColumnValues([i \in DOMAIN file.rows |-> file.rows[i][c]])]]

\* The names of the three required columns and of the optional one.
ColDt == <<"d","t">>

ColAmount == <<"a","m","o","u","n","t">>

ColDescription == <<"d","e","s","c","r","i","p","t","i","o","n">>

ColCategory == <<"c","a","t","e","g","o","r","y">>

\* required_cols.issubset(set(csv_df.columns.str.lower()))
HasRequiredCols(frame) ==
    {ColDt, ColAmount, ColDescription} \subseteq {Lower(frame.columns[c]) : c \in DOMAIN frame.columns}

HasCol(frame, name) == \E c \in DOMAIN frame.columns : Lower(frame.columns[c]) = name

\* row.get(name) on row i, the columns lower-cased; the column is there.
RowGet(frame, i, name) ==
    frame.data[CHOOSE c \in DOMAIN frame.columns : Lower(frame.columns[c]) = name][i]

\* A number n >= 0 or < 0 in decimal.
SignedDigits(n) == IF n < 0 THEN <<"-">> \o Digits(-n) ELSE Digits(n)

\* str(value)
PyStr(val) ==
    IF val.t = "nan" THEN <<"n","a","n">>
    ELSE IF val.t = "int" THEN SignedDigits(val.n)
    ELSE IF val.t = "float"
         THEN (IF val.n < 0 THEN <<"-">> \o FormatFloat(-val.n) ELSE FormatFloat(val.n))
    ELSE val.s

\* float(value) as [ok, nan, v]: a text is parsed and may raise (ok FALSE).
PyFloat(val) ==
    IF val.t = "nan" THEN [ok |-> TRUE, nan |-> TRUE, v |-> 0]
    ELSE IF val.t = "int" THEN [ok |-> TRUE, nan |-> FALSE, v |-> val.n * 100]
    ELSE IF val.t = "float" THEN [ok |-> TRUE, nan |-> FALSE, v |-> val.n]
    ELSE [ok |-> ParseFloat(val.s).ok, nan |-> FALSE, v |-> ParseFloat(val.s).v]

\* The body of the import loop on row i, up to the amt > 0 test: raised
\* when float() or parser.parse() raises, else the record to insert.
ImportRow(frame, i) ==
    LET dt_val == RowGet(frame, i, ColDt)
        amt    == PyFloat(RowGet(frame, i, ColAmount))
        desc   == PyStr(RowGet(frame, i, ColDescription))
        cat    == IF HasCol(frame, ColCategory) THEN RowGet(frame, i, ColCategory) ELSE NaN
        blank  == cat.t = "nan" \/ (cat.t \in {"int", "float"} /\ cat.n = 0)
        parsed == IF dt_val.t = "str" THEN parser_parse(dt_val.s) ELSE NoneDate
    IN  [raised   |-> ~amt.ok \/ parsed = NoneDate,
         positive |-> amt.ok /\ ~amt.nan /\ amt.v > 0,
         dt       |-> IF parsed = NoneDate THEN NoneText ELSE strftime(parsed),
         amount   |-> amt.v,
         description |-> desc,
         category |-> IF blank THEN auto_categorize(desc) ELSE PyStr(cat)]

\* A faulty variant of ImportLoop: the first failing row ends the loop.
RECURSIVE ImportLoopBreak(_, _, _, _, _)
ImportLoopBreak(frame, i, db, inserted, uid) ==
    IF i > frame.nrows THEN [db |-> db, inserted |-> inserted]
    ELSE LET r == ImportRow(frame, i) IN
         IF r.raised THEN [db |-> db, inserted |-> inserted]
         ELSE IF r.positive
         THEN ImportLoopBreak(frame, i + 1,
                  add_expense(db, r.dt, r.amount, r.description, r.category, uid),
                  inserted + 1, uid)
         ELSE ImportLoopBreak(frame, i + 1, db, inserted, uid)

\* The import loop from row i on: a row that raises is skipped, a row with
\* amt > 0 is inserted and counted.
RECURSIVE ImportLoop(_, _, _, _, _)
ImportLoop(frame, i, db, inserted, uid) ==
    IF i > frame.nrows THEN [db |-> db, inserted |-> inserted]
    ELSE LET r == ImportRow(frame, i) IN
         IF r.raised THEN ImportLoop(frame, i + 1, db, inserted, uid)
         ELSE IF r.positive
         THEN ImportLoop(frame, i + 1,
                  add_expense(db, r.dt, r.amount, r.description, r.category, uid),
                  inserted + 1, uid)
         ELSE ImportLoop(frame, i + 1, db, inserted, uid)

\* The Bulk Import page with an uploaded file (origin tells an upload of a
\* file of the user's from the upload of a file the app itself exported).
BulkImportPage(s, file, origin) ==
    /\ LoginGate(s)
    /\ IF file.header = <<>>
       THEN /\ UNCHANGED <<expenses, expense_seq>>
            /\ out' = PageOut(s, "import", FALSE, "Failed to import CSV")
                         @@ [file |-> file, origin |-> origin, inserted |-> 0,
                             rows_before |-> Len(expenses), seq_before |-> expense_seq]
       ELSE \E frame \in {read_csv(file)} :
            IF ~HasRequiredCols(frame)
            THEN /\ UNCHANGED <<expenses, expense_seq>>
                 /\ out' = PageOut(s, "import", FALSE,
                                   "CSV must contain dt, amount, description columns")
                              @@ [file |-> file, origin |-> origin, inserted |-> 0,
                             rows_before |-> Len(expenses), seq_before |-> expense_seq]
            ELSE \E done \in {ImportLoop(frame, 1, [rows |-> expenses, seq |-> expense_seq],
                                          0, session_state[s].user_id)} :
                 /\ done.db.seq <= MaxExpenseId
                 /\ expenses' = done.db.rows
                 /\ expense_seq' = done.db.seq
                 /\ out' = PageOut(s, "import", TRUE, "Imported records successfully.")
                              @@ [file |-> file, origin |-> origin, inserted |-> done.inserted,
                                  rows_before |-> Len(expenses), seq_before |-> expense_seq]
    /\ DropConfirm(s)
    /\ UNCHANGED <<users, session_state>>

\* The View & Export page's download, uploaded to the Bulk Import page as it is.
ReimportDownload(s, start_date, end_date, text_search) ==
    /\ LoginGate(s)
    /\ DateLeq(start_date, end_date)
    /\ ViewFrame(expenses, session_state[s].user_id, start_date, end_date, text_search) # <<>>
    /\ BulkImportPage(s, export_csv(ViewFrame(expenses, session_state[s].user_id,
                                              start_date, end_date, text_search)), "download")

(***************************************************************************)
(* Files to upload                                                         *)
(***************************************************************************)
\* The most rows an uploaded file of the model has.
MaxRows == 3

FullHeader == <<ColDt, ColAmount, ColDescription, ColCategory>>

\* A row that imports: 2024-01-09, 12.5, "Uber ride", no category.
GoodRow == << <<"2","0","2","4","-","0","1","-","0","9">>, <<"1","2",".","5">>, UberRide, <<>> >>

\* A row whose amount is no number.
BadAmountRow == << <<"2","0","2","4","-","0","1","-","0","9">>, <<"a","b","c">>, UberRide, <<>> >>

\* A row whose date is no date.
BadDateRow == << <<"s","o","o","n">>, <<"1","2",".","5">>, UberRide, <<>> >>

\* A row whose amount is 0.
ZeroAmountRow == << <<"2","0","2","4","-","0","1","-","0","9">>, <<"0">>, UberRide, <<>> >>

\* A row whose amount is negative.
NegativeAmountRow == << <<"2","0","2","4","-","0","1","-","0","9">>, <<"-","5">>, UberRide, <<>> >>

\* A row that imports, with a slashed date, a whole amount and a category.
LunchRow == << <<"2","0","2","4","/","1","/","1","0">>, <<"2","0">>, <<"l","u","n","c","h">>, Food >>

RowKinds == {GoodRow, BadAmountRow, BadDateRow}

RECURSIVE SeqsUpTo(_, _)
SeqsUpTo(S, n) ==
    IF n = 0 THEN {<<>>}
    ELSE LET shorter == SeqsUpTo(S, n - 1)
         IN  shorter \cup {Append(q, x) : q \in shorter, x \in S}

\* The files of the import runs: every sequence of at most MaxRows rows of
\* RowKinds under the full header; files with a zero and a negative amount
\* and with a given category; a file with the header in capitals and no
\* category column; a file without an amount column; and the empty file.
ImportFiles ==
    {[header |-> FullHeader, rows |-> r] : r \in SeqsUpTo(RowKinds, MaxRows)}
    \cup {[header |-> FullHeader, rows |-> <<ZeroAmountRow, GoodRow>>],
          [header |-> FullHeader, rows |-> <<GoodRow, NegativeAmountRow>>],
          [header |-> FullHeader, rows |-> <<LunchRow, BadAmountRow>>],
          [header |-> << <<"D","T">>, <<"A","m","o","u","n","t">>, ColDescription >>,
           rows   |-> << << <<"2","0","2","4","/","1","/","1","0">>, <<"2","0">>,
                            <<"l","u","n","c","h">> >> >>],
          [header |-> <<ColDt, ColDescription>>,
           rows   |-> << << <<"2","0","2","4","-","0","1","-","0","9">>, UberRide >> >>],
          EmptyFile}

\* The files uploaded next to the other pages.
FewFiles ==
    {[header |-> FullHeader, rows |-> <<BadAmountRow, GoodRow>>],
     [header |-> <<ColDt, ColDescription>>,
      rows   |-> << << <<"2","0","2","4","-","0","1","-","0","9">>, UberRide >> >>]}

(***************************************************************************)
(* Specifications                                                          *)
(***************************************************************************)
\* The whole app in one browser session.  The credential forms get one
\* password to register with and a second one to get wrong.
Next ==
    \E s \in Sessions :
        \/ Logout(s)
        \/ \E u \in Usernames, p \in {<<"p">>, <<"q">>} : LoginForm(s, u, p)
        \/ \E u \in Usernames \cup {<<>>}, c \in {<<"p">>, <<"q">>} : RegisterForm(s, u, <<"p">>, c)
        \/ HomePage(s)
        \/ \E d \in Dates, a \in Amounts, desc \in Descriptions :
               AddExpensePage(s, d, a, desc, auto_categorize(desc))
        \/ \E d1 \in Dates, d2 \in Dates, q \in Searches : ViewPage(s, d1, d2, q)
        \/ VisualizationsPage(s)
        \/ \E f \in FewFiles : BulkImportPage(s, f, "upload")
        \/ ClickClearAll(s)
        \/ TickConfirm(s)
        \/ \E d1 \in Dates, d2 \in Dates : ClickDeleteRange(s, d1, d2)

Spec == Init /\ [][Next]_vars

\* The credential store alone: the register and login forms and Logout.
NextAuth ==
    \E s \in Sessions :
        \/ Logout(s)
        \/ \E u \in Usernames \cup {<<>>}, p \in Passwords \cup {<<>>} : LoginForm(s, u, p)
        \/ \E u \in Usernames \cup {<<>>}, p \in Passwords \cup {<<>>} :
               \E c \in {p, <<"q">>} : RegisterForm(s, u, p, c)

SpecAuth == Init /\ [][NextAuth]_vars

\* A session logged in as the first registered user.
InitLoggedIn ==
    /\ users = <<[id |-> 1, username |-> <<"a">>, password_hash |-> hash_password(<<"p">>)]>>
    /\ expenses = <<>>
    /\ expense_seq = 0
    /\ session_state = [s \in Sessions |->
                          [logged_in |-> TRUE, username |-> <<"a">>, user_id |-> 1]]
    /\ confirm_box = [s \in Sessions |-> "absent"]
    /\ out = [op |-> "start"]

\* Bulk imports by a logged-in user.
NextImport ==
    \E s \in Sessions, f \in ImportFiles : BulkImportPage(s, f, "upload")

SpecImport == InitLoggedIn /\ [][NextImport]_vars

\* Export and re-import by a logged-in user: records are added, listed,
\* deleted, and a listing's download is uploaded again.
NextRoundTrip ==
    \E s \in Sessions :
        \/ \E d \in Dates, desc \in {<<>>, UberRide} :
               AddExpensePage(s, d, 1250, desc, auto_categorize(desc))
        \/ \E d1 \in Dates, d2 \in Dates, q \in Searches : ViewPage(s, d1, d2, q)
        \/ \E d1 \in Dates, d2 \in Dates, q \in Searches : ReimportDownload(s, d1, d2, q)
        \/ \E d1 \in Dates, d2 \in Dates : ClickDeleteRange(s, d1, d2)

SpecRoundTrip == InitLoggedIn /\ [][NextRoundTrip]_vars

(***************************************************************************)
(* The Add Expense form's suggestion                                       *)
(***************************************************************************)
\* The most words a description typed into the form has.
MaxWords == 3

Words ==
    { <<"U","b","e","r">>, <<"d","i","n","n","e","r">>, <<"c","u","r","r","e","n","t">>,
      <<"g","i","f","t">>, <<"B","U","S">> }

RECURSIVE Phrases(_)
Phrases(n) ==
    IF n = 0 THEN {<<>>}
    ELSE LET shorter == Phrases(n - 1)
         IN  shorter \cup Words \cup {p \o <<" ">> \o w : p \in shorter \ {<<>>}, w \in Words}

\* The descriptions typed into the form; NoneText is the missing one.
TypedDescriptions == Phrases(MaxWords) \cup {NoneText}

\* The position of x in the sequence q (1-based), 0 when absent.
IndexOf(q, x) == IF \E i \in DOMAIN q : q[i] = x THEN CHOOSE i \in DOMAIN q : q[i] = x ELSE 0

\* The Add Expense form, drawn with a description in its text box: the
\* suggested category and the option the select box is set to.
AddExpenseFormShown(s, description_input) ==
    /\ LoginGate(s)
    /\ LET suggested_category == auto_categorize(description_input)
           index == IF IndexOf(DEFAULT_CATEGORIES, suggested_category) # 0
                    THEN IndexOf(DEFAULT_CATEGORIES, suggested_category)
                    ELSE Len(DEFAULT_CATEGORIES)
       IN  out' = PageOut(s, "suggest", TRUE, "")
                     @@ [description |-> description_input,
                         suggested |-> suggested_category,
                         selected |-> DEFAULT_CATEGORIES[index]]
    /\ DropConfirm(s)
    /\ UNCHANGED <<users, expenses, expense_seq, session_state>>

NextCategorize ==
    \E s \in Sessions, d \in TypedDescriptions : AddExpenseFormShown(s, d)

SpecCategorize == InitLoggedIn /\ [][NextCategorize]_vars

(***************************************************************************)
(* The data operations called directly                                     *)
(***************************************************************************)
\* Two registered users, nobody logged in.
InitTwoUsers ==
    /\ users = register_user(register_user(<<>>, <<"a">>, <<"p">>), <<"b">>, <<"q">>)
    /\ expenses = <<>>
    /\ expense_seq = 0
    /\ session_state = [s \in Sessions |-> LoggedOut]
    /\ confirm_box = [s \in Sessions |-> "absent"]
    /\ out = [op |-> "start"]

\* The user ids a caller passes: those of the users table, and None.
CallerIds == {users[i].id : i \in DOMAIN users} \cup {NoneId}

CallAddExpense(dt, amount, description, category, user_id) ==
    /\ expense_seq < MaxExpenseId
    /\ LET db == add_expense([rows |-> expenses, seq |-> expense_seq],
                             dt, amount, description, category, user_id)
       IN  /\ expenses' = db.rows
           /\ expense_seq' = db.seq
    /\ out' = [op |-> "add_expense", uid |-> user_id, rows |-> <<>>]
    /\ UNCHANGED <<users, session_state, confirm_box>>

CallFetchExpenses(start_date, end_date, user_id) ==
    /\ out' = [op |-> "fetch_expenses", uid |-> user_id,
               rows |-> fetch_expenses(expenses, start_date, end_date, user_id)]
    /\ UNCHANGED <<users, expenses, expense_seq, session_state, confirm_box>>

CallDeleteAll(user_id) ==
    /\ expenses' = delete_all(expenses, user_id)
    /\ out' = [op |-> "delete_all", uid |-> user_id, rows |-> <<>>]
    /\ UNCHANGED <<users, expense_seq, session_state, confirm_box>>

CallDeleteRange(user_id, start, end) ==
    /\ expenses' = delete_range(expenses, user_id, start, end)
    /\ out' = [op |-> "delete_range", uid |-> user_id, rows |-> <<>>]
    /\ UNCHANGED <<users, expense_seq, session_state, confirm_box>>

NextRepo ==
    \E uid \in CallerIds :
        \/ \E d \in Dates : CallAddExpense(strftime(d), 1250, UberRide, Transport, uid)
        \/ \E d1 \in Dates, d2 \in Dates : CallFetchExpenses(strftime(d1), strftime(d2), uid)
        \/ CallFetchExpenses(NoneText, NoneText, uid)
        \/ CallDeleteAll(uid)
        \/ \E d1 \in Dates, d2 \in Dates : CallDeleteRange(uid, strftime(d1), strftime(d2))

SpecRepo == InitTwoUsers /\ [][NextRepo]_vars

(***************************************************************************)
(* Properties                                                              *)
(***************************************************************************)
UserIds == {users[i].id : i \in DOMAIN users}

\* The date ranges a query is given: none, or any two of Dates.
QueryRanges ==
    {<<NoneText, NoneText>>} \cup {<<strftime(d1), strftime(d2)>> : d1 \in Dates, d2 \in Dates}

RowsOf(uid) == {j \in DOMAIN expenses : expenses[j].user_id = uid}

\* C1: whatever was registered, added, imported and deleted, fetch_expenses
\* for a user, with or without a date range, returns only rows of the table
\* whose user_id is that user's: never a row of another user.
C1_QueryReturnsOnlyOwnRows ==
    \A uid \in UserIds : \A r \in QueryRanges :
        \A df \in {fetch_expenses(expenses, r[1], r[2], uid)} :
            \A i \in DOMAIN df :
                \E j \in DOMAIN expenses :
                    expenses[j].id = df[i].id /\ expenses[j].user_id = uid

\* Two users own rows, and the View page has just listed one user's.
C1_Witness ==
    /\ out.op = "view" /\ out.ok /\ out.has_download
    /\ \E u1 \in UserIds, u2 \in UserIds : u1 # u2 /\ RowsOf(u1) # {} /\ RowsOf(u2) # {}

\* C2: every stored expense has a non-null user_id that is the id of a
\* user, and a fetch with a null user_id returns no row.
C2_NullUserFailsClosed ==
    /\ \A j \in DOMAIN expenses :
          expenses[j].user_id # NoneId /\ expenses[j].user_id \in UserIds
    /\ (out.op = "fetch_expenses" /\ out.uid = NoneId) => out.rows = <<>>

\* C3: a script run that refuses its input reports the error and leaves the
\* expenses table as it was: the Add form with an amount <= 0, and Delete
\* Selected Range with a start date after the end date.
C3_RejectedLeavesExpensesUnchanged ==
    [][ /\ (out'.op = "add" /\ out'.amount <= 0) =>
              /\ ~out'.ok /\ out'.msg = "Amount should be greater than 0."
              /\ expenses' = expenses /\ expense_seq' = expense_seq
        /\ (out'.op = "delete_range" /\ ~DateLeq(out'.start, out'.end)) =>
              /\ ~out'.ok /\ out'.msg = "Start date cannot be after end date."
              /\ expenses' = expenses ]_vars

\* The Add form has just refused an amount of 0 of a user who owns rows.
C3_Witness ==
    /\ out.op = "add" /\ out.amount <= 0 /\ ~out.ok
    /\ RowsOf(out.uid) # {}

\* C4: once the user has clicked "Clear ALL Expenses" and ticked "Confirm
\* deletion", the user owns no expense.
C4_ClearAllRemovesEveryRow ==
    out.op = "confirm_tick" => RowsOf(out.uid) = {}

\* The ids of the rows of a frame.
IdsOf(df) == {df[i].id : i \in DOMAIN df}

\* C5: for every user and every range of two dates, the ranged query
\* returns exactly the rows of the unranged query whose date lies in the
\* range, ends included, each once, latest date first.
C5_RangeQueryExactAndDescending ==
    \A uid \in UserIds :
        \A all \in {fetch_expenses(expenses, NoneText, NoneText, uid)} :
            /\ \A i \in DOMAIN all : \A j \in DOMAIN all : i < j => DateLeq(all[j].dt, all[i].dt)
            /\ \A d1 \in Dates, d2 \in Dates :
                  \A df \in {fetch_expenses(expenses, strftime(d1), strftime(d2), uid)} :
                      /\ \A i \in DOMAIN df : \E k \in DOMAIN all : all[k] = df[i]
                      /\ IdsOf(df) = {all[k].id : k \in {k \in DOMAIN all :
                                          DateLeq(d1, all[k].dt) /\ DateLeq(all[k].dt, d2)}}
                      /\ Cardinality(IdsOf(df)) = Len(df)
                      /\ \A i \in DOMAIN df : \A j \in DOMAIN df :
                            i < j => DateLeq(df[j].dt, df[i].dt)

\* The View page has just listed a range that holds some but not all of the
\* user's rows, and the user's rows were not inserted latest first.
C5_Witness ==
    /\ out.op = "view" /\ out.ok
    /\ \E d1 \in Dates, d2 \in Dates :
          LET all == fetch_expenses(expenses, NoneText, NoneText, out.uid)
              df  == fetch_expenses(expenses, strftime(d1), strftime(d2), out.uid)
          IN  /\ df # <<>> /\ Len(df) < Len(all)
              /\ all # SelectExpenses(expenses, NoneText, NoneText, out.uid)

\* The rows of a frame the import is to insert: the date is a text that
\* parses and the amount a number above 0.
ImportableRows(frame) ==
    {i \in 1..frame.nrows :
        /\ RowGet(frame, i, ColDt).t = "str"
        /\ parser_parse(RowGet(frame, i, ColDt).s) # NoneDate
        /\ PyFloat(RowGet(frame, i, ColAmount)).ok
        /\ ~PyFloat(RowGet(frame, i, ColAmount)).nan
        /\ PyFloat(RowGet(frame, i, ColAmount)).v > 0}

\* C6: an import of a file that has the required columns completes; it
\* counts and inserts exactly the rows whose date parses and whose amount
\* is a number above 0, one record each, in the file's order, owned by the
\* importing user; every other row inserts nothing and stops nothing.
C6_ImportSkipsFailingRows ==
    (out.op = "import" /\ out.file.header # <<>> /\ HasRequiredCols(read_csv(out.file))) =>
        \A frame \in {read_csv(out.file)} : \A good \in {ImportableRows(frame)} :
            LET n      == Cardinality(good)
                nth(k) == CHOOSE i \in good : Cardinality({j \in good : j < i}) = k - 1
            IN  /\ out.ok
                /\ out.inserted = n
                /\ Len(expenses) = out.rows_before + n
                /\ expense_seq = out.seq_before + n
                /\ \A k \in 1..n :
                      \A e \in {expenses[out.rows_before + k]} :
                          /\ e.user_id = out.uid /\ e.user_id # NoneId
                          /\ e.id = out.seq_before + k
                          /\ e.dt = strftime(parser_parse(RowGet(frame, nth(k), ColDt).s))
                          /\ e.amount = PyFloat(RowGet(frame, nth(k), ColAmount)).v

\* The file of three rows whose second row has a non-numeric amount has
\* just been imported, and two records were counted.
C6_Witness ==
    /\ out.op = "import" /\ out.ok
    /\ out.file = [header |-> FullHeader, rows |-> <<GoodRow, BadAmountRow, GoodRow>>]
    /\ out.inserted = 2

\* C7: after a listing's download is imported again, every exported record
\* has a newly inserted record of the same date, amount, description and
\* category.
C7_ExportImportRoundTrip ==
    (out.op = "import" /\ out.origin = "download" /\ out.ok) =>
        \A i \in DOMAIN out.file.rows :
            \E j \in DOMAIN expenses, k \in DOMAIN expenses :
                /\ expenses[j].id = NatOf(out.file.rows[i][1])
                /\ expenses[k].id > expense_seq - out.inserted
                /\ expenses[k].dt = expenses[j].dt
                /\ expenses[k].amount = expenses[j].amount
                /\ expenses[k].description = expenses[j].description
                /\ expenses[k].category = expenses[j].category

\* The description the categorizer looks at: lower-cased, the missing one empty.
Normalized(description) == Lower(IF description = NoneText THEN <<>> ELSE description)

Keywords == DOMAIN KEYWORD_CATEGORY_MAP

\* C8 as stated: the suggestion is the category of every keyword the
\* description contains, and "Misc" when it contains none.
C8_AnyContainedKeywordDecides ==
    out.op = "suggest" =>
        LET desc == Normalized(out.description) IN
        /\ \A i \in Keywords :
              Contains(desc, KEYWORD_CATEGORY_MAP[i][1]) => out.suggested = KEYWORD_CATEGORY_MAP[i][2]
        /\ (\A i \in Keywords : ~Contains(desc, KEYWORD_CATEGORY_MAP[i][1])) => out.suggested = Misc

\* C8 amended: the suggestion is the category of the first keyword of the
\* table that the lower-cased description contains, and "Misc" when it
\* contains none (the empty and the missing description among them).
C8_FirstContainedKeywordDecides ==
    out.op = "suggest" =>
        LET desc == Normalized(out.description) IN
        /\ \A i \in Keywords :
              (/\ Contains(desc, KEYWORD_CATEGORY_MAP[i][1])
               /\ \A j \in Keywords : j < i => ~Contains(desc, KEYWORD_CATEGORY_MAP[j][1]))
              => out.suggested = KEYWORD_CATEGORY_MAP[i][2]
        /\ (\A i \in Keywords : ~Contains(desc, KEYWORD_CATEGORY_MAP[i][1])) => out.suggested = Misc

\* A description that contains two keywords of different categories has
\* just been categorized.
C8_Witness ==
    /\ out.op = "suggest"
    /\ \E i \in Keywords, j \in Keywords :
          /\ Contains(Normalized(out.description), KEYWORD_CATEGORY_MAP[i][1])
          /\ Contains(Normalized(out.description), KEYWORD_CATEGORY_MAP[j][1])
          /\ KEYWORD_CATEGORY_MAP[i][2] # KEYWORD_CATEGORY_MAP[j][2]

\* C9: registering a username that exists is answered "already exists" and
\* changes nothing; no stored user row ever changes; a successful register
\* stores the digest of its password; a login succeeds exactly when the
\* username has a row whose stored digest is the digest of the password
\* given, and fails with one and the same answer otherwise.
C9_CredentialStore ==
    [][ /\ \A i \in DOMAIN users : i \in DOMAIN users' /\ users'[i] = users[i]
        /\ (out'.op = "register" /\ out'.called /\ UsernameTaken(out'.username)) =>
              /\ ~out'.ok /\ out'.msg = "Username already exists."
              /\ users' = users
        /\ (out'.op = "register" /\ out'.called /\ ~UsernameTaken(out'.username)) =>
              /\ out'.ok
              /\ users' = Append(users, [id |-> Len(users) + 1, username |-> out'.username,
                                         password_hash |-> hash_password(out'.password)])
        /\ (out'.op = "register" /\ ~out'.called) => users' = users
        /\ out'.op = "login" =>
              /\ out'.ok <=> \E i \in DOMAIN users :
                                /\ users[i].username = out'.username
                                /\ users[i].password_hash = hash_password(out'.password)
              /\ ~out'.ok => /\ out'.msg = "Invalid username or password."
                            /\ session_state' = session_state ]_vars

\* A registered username has just been registered again with a password
\* of another digest, and was refused.
C9_Witness ==
    /\ out.op = "register" /\ out.called /\ ~out.ok
    /\ \E i \in DOMAIN users :
          /\ users[i].username = out.username
          /\ users[i].password_hash # hash_password(out.password)

\* The pages that call the data operations.
RepositoryPages == {"home", "add", "view", "viz", "import", "clear_all", "confirm_tick", "delete_range"}

\* C10: a logged-in session's user_id is non-null and is the stored id of
\* its username; a logged-out session has neither username nor user_id; a
\* session becomes logged in only by a login that authenticates; every page
\* that calls the data operations runs logged in and with the session's
\* user_id, which is the owner of the row the Add form inserts.
C10_SessionInvariant ==
    /\ [](\A s \in Sessions :
            /\ session_state[s].logged_in =>
                  /\ session_state[s].user_id # NoneId
                  /\ session_state[s].user_id = get_user_id(session_state[s].username)
            /\ ~session_state[s].logged_in => session_state[s] = LoggedOut)
    /\ [](out.op \in RepositoryPages =>
            /\ out.logged_in /\ session_state[out.s].logged_in
            /\ out.uid # NoneId /\ out.uid = session_state[out.s].user_id)
    /\ [][ /\ \A s \in Sessions :
                (~session_state[s].logged_in /\ session_state'[s].logged_in) =>
                    /\ out'.op = "login" /\ out'.ok
                    /\ authenticate_user(out'.username, out'.password)
                    /\ session_state'[s].username = out'.username
           /\ out'.op = "logout" => session_state'[out'.s] = LoggedOut
           /\ (out'.op = "add" /\ out'.ok) =>
                    expenses'[Len(expenses')].user_id = session_state[out'.s].user_id ]_vars

\* The second registered user, logged in, has just added an expense.
C10_Witness ==
    /\ out.op = "add" /\ out.ok /\ out.uid = 2
    /\ \E s \in Sessions : session_state[s].logged_in /\ session_state[s].user_id = 2

====
